---- MODULE Spec2Model ----
(***************************************************************************)
(* A model of omdb_rym.py: the OMDb sweep (add_movies), the RYM presence   *)
(* check (search_rym, check_rym) and the report                            *)
(* (create_non_rym_dataframe), with the pandas / difflib / bs4 calls they  *)
(* make modelled by what those calls do.                                   *)
(*                                                                         *)
(* Python strings are sequences of one-character strings.  A Python value  *)
(* that may be an int or a str is a record [t, n, s]: t names the type,    *)
(* n holds the int, s holds the characters.                                *)
(***************************************************************************)
EXTENDS Integers, Sequences, FiniteSets, TLC

VARIABLES
    file,          \* movie_list.csv: [exists, rows]
    file0,         \* movie_list.csv as it was when this run began
    pc,            \* position of the process: idle, sweep, swept, verify, done, raised
    args,          \* (start, end) as given to main / add_movies
    start,         \* add_movies: loop variable start
    end,           \* add_movies: end
    sleep_amount,  \* add_movies: sleep_amount
    dataframe,     \* the in-memory dataframe (a sequence of rows)
    loop_index,    \* search_rym: position in enumerate(not_checked)
    not_checked,   \* search_rym: the selection taken on entry
    calls,         \* the external calls of this run, in order: sleeps, fetches, searches
    exc,           \* the exception that ended the run, "none" otherwise
    report,        \* what main returned
    iters,         \* loop iterations of add_movies taken in this run
    rerun,         \* TRUE in the run that follows a run of the same arguments
    prev,          \* what the previous run left behind: its calls, dataframe, outcome
    fn_arg,        \* the argument of a function applied on its own
    fn_ret         \* its result

vars == <<file, file0, pc, args, start, end, sleep_amount, dataframe, loop_index,
          not_checked, calls, exc, report, iters, rerun, prev, fn_arg, fn_ret>>

\* ------------------------------------------------------------------ bounds

\* Loop iterations of one add_movies sweep that the model follows.
MaxIter == 3

\* ----------------------------------------------------------------- strings

DigitChars == <<"0", "1", "2", "3", "4", "5", "6", "7", "8", "9">>

IsDigit(c) == \E d \in 1..10 : DigitChars[d] = c

DigitVal(c) == (CHOOSE d \in 1..10 : DigitChars[d] = c) - 1

IntV(n) == [t |-> "int", n |-> n, s |-> <<>>]

StrV(s) == [t |-> "str", n |-> 0, s |-> s]

\* str(n) for an int n
RECURSIVE NatStr(_)
NatStr(n) == IF n < 10 THEN <<DigitChars[n + 1]>>
             ELSE NatStr(n \div 10) \o <<DigitChars[(n % 10) + 1]>>

\* str(n) cut to its first seven characters
str_int_first_seven(n) ==
    LET d == IF n < 0 THEN <<"-">> \o NatStr(0 - n) ELSE NatStr(n)
    IN SubSeq(d, 1, IF Len(d) < 7 THEN Len(d) ELSE 7)

str_int(n) == IF n < 0 THEN <<"-">> \o NatStr(0 - n) ELSE NatStr(n)

RECURSIVE Zeros(_)
Zeros(k) == IF k <= 0 THEN <<>> ELSE <<"0">> \o Zeros(k - 1)

\* zfill as a fixed-width field: what does not fit is cut off on the left
zfill_fixed_width(s, width) ==
    LET z == Zeros(width - Len(s)) \o s
    IN SubSeq(z, Len(z) - width + 1, Len(z))

\* str.zfill(width): zeros go after a leading sign
zfill(s, width) ==
    IF Len(s) >= width THEN s
    ELSE IF Len(s) > 0 /\ s[1] \in {"+", "-"}
         THEN <<s[1]>> \o Zeros(width - Len(s)) \o Tail(s)
         ELSE Zeros(width - Len(s)) \o s

\* str.strip() of blanks
RECURSIVE lstrip(_)
lstrip(s) == IF Len(s) > 0 /\ s[1] = " " THEN lstrip(Tail(s)) ELSE s

RECURSIVE rstrip(_)
rstrip(s) == IF Len(s) > 0 /\ s[Len(s)] = " " THEN rstrip(SubSeq(s, 1, Len(s) - 1)) ELSE s

strip(s) == rstrip(lstrip(s))

RECURSIVE DigitsVal(_)
DigitsVal(s) == IF Len(s) = 0 THEN 0
                ELSE 10 * DigitsVal(SubSeq(s, 1, Len(s) - 1)) + DigitVal(s[Len(s)])

AllDigits(s) == Len(s) > 0 /\ \A k \in 1..Len(s) : IsDigit(s[k])

\* int(x): an int is returned as is; a str is stripped, may carry one sign, and
\* must then be decimal digits, else ValueError.
int_str(s) ==
    LET b == strip(s)
        signed == Len(b) > 0 /\ b[1] \in {"+", "-"}
        d == IF signed THEN Tail(b) ELSE b
    IN IF AllDigits(d)
       THEN [ok |-> TRUE, n |-> IF signed /\ b[1] = "-" THEN 0 - DigitsVal(d) ELSE DigitsVal(d)]
       ELSE [ok |-> FALSE, n |-> 0]

int_(x) == IF x.t = "int" THEN [ok |-> TRUE, n |-> x.n] ELSE int_str(x.s)

\* ------------------------------------------------------------- the codec

zfill_width == 7

\* get_imdb_string(number): 'tt' + str(int(number)).zfill(7); int()'s ValueError
\* is not caught here.
get_imdb_string(number) ==
    LET i == int_(number)
    IN IF i.ok THEN [ok |-> TRUE, s |-> <<"t", "t">> \o zfill(str_int(i.n), zfill_width)]
       ELSE [ok |-> FALSE, s |-> <<>>]

\* ------------------------------------------------- difflib.SequenceMatcher

\* The length of the common run of a[i..] and b[j..] inside the windows
\* (0-based, half-open, as in difflib).
RECURSIVE RunLen(_, _, _, _, _, _)
RunLen(a, b, i, j, ahi, bhi) ==
    IF i < ahi /\ j < bhi /\ a[i + 1] = b[j + 1]
    THEN 1 + RunLen(a, b, i + 1, j + 1, ahi, bhi)
    ELSE 0

\* SequenceMatcher.find_longest_match without junk: the longest matching block of
\* a[alo:ahi] and b[blo:bhi]; of the longest, the one starting earliest in a, and of
\* those the one starting earliest in b.  (alo, blo, 0) when nothing matches.
find_longest_match(a, b, alo, ahi, blo, bhi) ==
    LET Blocks == {<<i, j>> \in (alo..(ahi - 1)) \X (blo..(bhi - 1)) : a[i + 1] = b[j + 1]}
        Size(p) == RunLen(a, b, p[1], p[2], ahi, bhi)
    IN IF Blocks = {} THEN [i |-> alo, j |-> blo, k |-> 0]
       ELSE LET best == CHOOSE p \in Blocks :
                            \A q \in Blocks :
                                \/ Size(p) > Size(q)
                                \/ /\ Size(p) = Size(q)
                                   /\ \/ p[1] < q[1]
                                      \/ p[1] = q[1] /\ p[2] <= q[2]
            IN [i |-> best[1], j |-> best[2], k |-> Size(best)]

\* The sum of the sizes of get_matching_blocks(): the longest block, then the same
\* to its left and to its right.
RECURSIVE matches(_, _, _, _, _, _)
matches(a, b, alo, ahi, blo, bhi) ==
    LET m == find_longest_match(a, b, alo, ahi, blo, bhi)
    IN IF m.k = 0 THEN 0
       ELSE m.k
            + (IF alo < m.i /\ blo < m.j THEN matches(a, b, alo, m.i, blo, m.j) ELSE 0)
            + (IF m.i + m.k < ahi /\ m.j + m.k < bhi
               THEN matches(a, b, m.i + m.k, ahi, m.j + m.k, bhi) ELSE 0)

\* SequenceMatcher(None, a, b).ratio() as the fraction num/den: 2.0 * matches /
\* (len(a) + len(b)), and 1.0 when both are empty.
ratio(a, b) ==
    IF Len(a) + Len(b) = 0 THEN [num |-> 1, den |-> 1]
    ELSE [num |-> 2 * matches(a, b, 0, Len(a), 0, Len(b)), den |-> Len(a) + Len(b)]

\* ------------------------------------------------------------- check_rym

\* minimum_similarity_score = 0.6, as a fraction
minimum_similarity_score_num == 6

minimum_similarity_score_den == 10

\* re.search of a pattern of plain characters: a substring test
IsSubstring(p, s) ==
    \E k \in 0..(Len(s) - Len(p)) : SubSeq(s, k + 1, k + Len(p)) = p

\* A soup is the sequence soup.find_all('span') of the search results, in document
\* order.  A span is [parent, a, texts]: the element it is a child of, its first
\* <a> descendant ([has, text]) and its own text nodes.
NoA == [has |-> FALSE, text |-> <<>>]

A(text) == [has |-> TRUE, text |-> text]

\* the strings under a span: the text of its <a>, then its own text nodes
strings(span) == (IF span.a.has THEN <<span.a.text>> ELSE <<>>) \o span.texts

\* link.find(text=re.compile('(year)')): some string under the span has the year
\* in it
find_text(span, year) ==
    \E k \in 1..Len(strings(span)) : IsSubstring(year, strings(span)[k])

\* link.find_previous_sibling('span'): the position of the nearest earlier span
\* of the same parent, 0 when there is none (None)
find_previous_sibling(soup, i) ==
    LET Before == {j \in 1..(i - 1) : soup[j].parent = soup[i].parent}
    IN IF Before = {} THEN 0 ELSE CHOOSE j \in Before : \A h \in Before : h <= j

\* get_similarity_ratio with >= for >
get_similarity_ratio_at_least(title, soup, i) ==
    LET p == find_previous_sibling(soup, i)
    IN IF p = 0 \/ ~soup[p].a.has THEN [raised |-> TRUE, value |-> FALSE]
       ELSE LET r == ratio(soup[p].a.text, title)
            IN [raised |-> FALSE,
                value |-> r.num * minimum_similarity_score_den
                              >= minimum_similarity_score_num * r.den]

\* get_similarity_ratio(title, link): AttributeError when the span has no previous
\* sibling span, or that span has no <a>; else whether the ratio of the <a>'s
\* text to the title is greater than 0.6.
get_similarity_ratio(title, soup, i) ==
    LET p == find_previous_sibling(soup, i)
    IN IF p = 0 \/ ~soup[p].a.has THEN [raised |-> TRUE, value |-> FALSE]
       ELSE LET r == ratio(soup[p].a.text, title)
            IN [raised |-> FALSE,
                value |-> r.num * minimum_similarity_score_den
                              > minimum_similarity_score_num * r.den]

\* check_rym's loop with the AttributeError suppressed around the whole loop: the
\* first span without a title to compare ends the scan
RECURSIVE check_rym_from_suppress_outside(_, _, _, _)
check_rym_from_suppress_outside(soup, title, year, i) ==
    IF i > Len(soup) THEN FALSE
    ELSE IF find_text(soup[i], year)
         THEN LET g == get_similarity_ratio(title, soup, i)
              IN IF g.raised THEN FALSE
                 ELSE IF g.value THEN TRUE
                 ELSE check_rym_from_suppress_outside(soup, title, year, i + 1)
         ELSE check_rym_from_suppress_outside(soup, title, year, i + 1)

\* check_rym(soup, title, year): the loop over the spans from position i on; the
\* first span with the year in it and a similar enough title returns True, an
\* AttributeError is suppressed, the end of the loop returns False.
RECURSIVE check_rym_from(_, _, _, _)
check_rym_from(soup, title, year, i) ==
    IF i > Len(soup) THEN FALSE
    ELSE IF find_text(soup[i], year)
         THEN LET g == get_similarity_ratio(title, soup, i)
              IN IF ~g.raised /\ g.value THEN TRUE
                 ELSE check_rym_from(soup, title, year, i + 1)
         ELSE check_rym_from(soup, title, year, i + 1)

check_rym(soup, title, year) == check_rym_from(soup, title, year, 1)

\* ---------------------------------------------------------- the dataframe

\* A missing value (pandas' NaN) of a column of strings.
NaN == <<"NaN">>

\* A row of the dataframe: the columns the program reads, of the 26.  in_rym is
\* "NaN" (not checked), "True" or "False".
Row(imdb_id, title, year, type, in_rym) ==
    [imdb_id |-> imdb_id, title |-> title, year |-> year, type |-> type, in_rym |-> in_rym]

\* What DataFrame.append makes of a record with no keys: a row of missing values.
BlankRow == Row(NaN, NaN, NaN, "NaN", "NaN")

\* create_movie_list(): the columns of a new dataframe
columns ==
    <<"title", "year", "rated", "released", "runtime", "genre", "director", "writer",
      "actors", "plot", "language", "country", "awards", "poster", "ratings",
      "metascore", "imdb_rating", "imdb_votes", "imdb_id", "type", "dvd", "box_office",
      "production", "website", "response", "in_rym">>

create_movie_list == <<>>

check_movie_list_existence(f) == f.exists

read_movie_list(f) == f.rows

\* get_movie_list(): the file's rows if it exists, else a new dataframe
get_movie_list(f) ==
    IF check_movie_list_existence(f) THEN read_movie_list(f) ELSE create_movie_list

\* dataframe.to_csv('movie_list.csv', index=False, header=True)
to_csv(df) == [exists |-> TRUE, rows |-> df]

\* contains with all() for any()
contains_all(df, movie_string) ==
    \A k \in 1..Len(df) : df[k].imdb_id # NaN /\ IsSubstring(movie_string, df[k].imdb_id)

\* contains looking in the title column
contains_in_title(df, movie_string) ==
    \E k \in 1..Len(df) : df[k].title # NaN /\ IsSubstring(movie_string, df[k].title)

\* dataframe['imdb_id'].str.contains(movie_string).any(): the pattern is searched
\* for inside every identifier; a missing identifier gives NaN, which any() skips.
contains(df, movie_string) ==
    \E k \in 1..Len(df) : df[k].imdb_id # NaN /\ IsSubstring(movie_string, df[k].imdb_id)

\* append that leaves the dataframe alone when OMDb found nothing
append_found_only(df, movie_data) ==
    IF movie_data.found THEN Append(df, movie_data.row) ELSE df

\* append that puts the new row first
append_first(df, movie_data) ==
    <<IF movie_data.found THEN movie_data.row ELSE BlankRow>> \o df

\* dataframe.append(movie_data, ignore_index=True): a new last row; a record with
\* no keys (OMDb found nothing) gives a row of missing values.
append(df, movie_data) ==
    Append(df, IF movie_data.found THEN movie_data.row ELSE BlankRow)

\* ------------------------------------------------------------------- OMDb

TitlePool ==
    << <<"a", "b", "c", "d", "e">>, <<"t", "i", "d", "e">>, <<"a", "b", "c", "x", "y">> >>

omdb_title(n) == TitlePool[(n % 3) + 1]

omdb_year(n) == IF n % 2 = 0 THEN <<"1", "0">> ELSE <<"1", "1">>

omdb_type(n) == IF n % 3 = 2 THEN "series" ELSE "movie"

\* What omdb.imdbid(imdb_id) returns for sequence number n: the film's record, with
\* no in_rym key, or a record with no keys when OMDb has no such film.
omdb_imdbid(imdb_id, n, outcome) ==
    IF outcome = "hit"
    THEN [found |-> TRUE,
          row |-> Row(imdb_id, omdb_title(n), omdb_year(n), omdb_type(n), "NaN")]
    ELSE [found |-> FALSE, row |-> BlankRow]

\* get_movie(imdb_id, api_key)
get_movie(imdb_id, n, outcome) == omdb_imdbid(imdb_id, n, outcome)

\* add_individual_movie(movie, dataframe, api_key)
add_individual_movie(movie, n, df, outcome) == append(df, get_movie(movie, n, outcome))

\* ------------------------------------------------------------- the events

Sleep(secs) == [op |-> "sleep", arg |-> <<>>, secs |-> secs, res |-> ""]

Fetch(imdb_id, outcome) == [op |-> "get_movie", arg |-> imdb_id, secs |-> 0, res |-> outcome]

Browser(outcome) == [op |-> "browser", arg |-> <<>>, secs |-> 0, res |-> outcome]

Search(title) == [op |-> "search", arg |-> title, secs |-> 0, res |-> ""]

\* ------------------------------------------------------------ add_movies

default_start == 0

default_end == 9999999

\* validate_input with both conversions under one try: a ValueError in either
\* resets both
validate_input_one_try(s, e) ==
    IF int_(s).ok /\ int_(e).ok THEN <<int_(s).n, int_(e).n>>
    ELSE <<default_start, default_end>>

\* validate_input(start, end): int() of each, a ValueError replaced by 0 / 9999999
validate_input(s, e) ==
    <<IF int_(s).ok THEN int_(s).n ELSE default_start,
      IF int_(e).ok THEN int_(e).n ELSE default_end>>

sleep_span == 1000

sleep_paced == 90

\* sleep_amount = 0; if end - start > 1000: sleep_amount = 90
sleep_amount_of(s, e) == IF e - s > sleep_span THEN sleep_paced ELSE 0

\* ------------------------------------------------------------ search_rym

scraper_sleep_time == 90

\* dataframe[(pd.isnull(dataframe.in_rym)) & (dataframe.type == 'movie')]
select_not_checked(df) ==
    SelectSeq(df, LAMBDA r : r.in_rym = "NaN" /\ r.type = "movie")

\* enumerate(not_checked): iterating a DataFrame yields its column labels, so the
\* loop variable is the tuple (position, label) of each column in turn, whatever
\* rows the frame has.
enumerate_(frame) ==
    [k \in 1..Len(columns) |-> [t |-> "tuple", n |-> k - 1, label |-> columns[k]]]

\* series.iloc[key]: the value at an integer position (negative ones count from the
\* end); IndexError out of range; IndexingError ("Too many indexers") for a tuple.
iloc(values, key) ==
    IF key.t # "int" THEN [ok |-> FALSE, v |-> <<>>, exc |-> "IndexingError"]
    ELSE IF key.n \in 0..(Len(values) - 1)
         THEN [ok |-> TRUE, v |-> values[key.n + 1], exc |-> ""]
    ELSE IF 0 - key.n \in 1..Len(values)
         THEN [ok |-> TRUE, v |-> values[Len(values) + key.n + 1], exc |-> ""]
    ELSE [ok |-> FALSE, v |-> <<>>, exc |-> "IndexError"]

column_imdb_id(frame) == [k \in 1..Len(frame) |-> frame[k].imdb_id]

column_title(frame) == [k \in 1..Len(frame) |-> frame[k].title]

column_year(frame) == [k \in 1..Len(frame) |-> frame[k].year]

bool_str(b) == IF b THEN "True" ELSE "False"

\* dataframe['in_rym'].loc[dataframe['imdb_id'] == imdb_id] = verdict
set_in_rym(df, imdb_id, verdict) ==
    [k \in 1..Len(df) |->
        IF df[k].imdb_id = imdb_id THEN [df[k] EXCEPT !.in_rym = bool_str(verdict)]
        ELSE df[k]]

\* The body with the loop variable's position used as the row, and the verdict
\* assigned to the whole in_rym column
search_rym_body_whole_column(df, selection, index, soup) ==
    LET key == [t |-> "int", n |-> index.n, label |-> ""]
        title == iloc(column_title(selection), key)
        year == iloc(column_year(selection), key)
    IN IF ~title.ok
       THEN [raised |-> TRUE, exc |-> title.exc, dataframe |-> df, events |-> <<>>]
       ELSE [raised |-> FALSE, exc |-> "none",
             dataframe |-> [k \in 1..Len(df) |->
                               [df[k] EXCEPT !.in_rym =
                                   bool_str(check_rym(soup, title.v, year.v))]],
             events |-> <<Search(title.v), Sleep(scraper_sleep_time)>>]

\* One pass of the body of search_rym's loop, for the loop variable index and the
\* soup the search gives: get_search_results types not_checked['title'].iloc[index]
\* into the search bar, which raises before any search is made when iloc does;
\* else the verdict of check_rym is written to the rows of that imdb_id and the
\* scraper sleeps.
search_rym_body(df, selection, index, soup) ==
    LET title == iloc(column_title(selection), index)
        year == iloc(column_year(selection), index)
        imdb_id == iloc(column_imdb_id(selection), index)
    IN IF ~title.ok
       THEN [raised |-> TRUE, exc |-> title.exc, dataframe |-> df, events |-> <<>>]
       ELSE [raised |-> FALSE, exc |-> "none",
             dataframe |-> set_in_rym(df, imdb_id.v, check_rym(soup, title.v, year.v)),
             events |-> <<Search(title.v), Sleep(scraper_sleep_time)>>]

\* ------------------------------------------------ create_non_rym_dataframe

\* bool(series), which "not series" asks for: pandas raises ValueError ("The truth
\* value of a Series is ambiguous") for every Series.
series_bool(series) == [raised |-> TRUE, value |-> FALSE]

column_in_rym(frame) == [k \in 1..Len(frame) |-> frame[k].in_rym]

ReportRow(r) == [imdb_id |-> r.imdb_id, title |-> r.title, year |-> r.year]

\* dataframe.loc[not dataframe['in_rym'], ['imdb_id', 'title', 'year']]
create_non_rym_dataframe(df) ==
    LET truth == series_bool(column_in_rym(df))
    IN \* .loc[<a bool>, ...] looks up a row labelled True or False: KeyError
       IF truth.raised THEN [raised |-> TRUE, exc |-> "ValueError", rows |-> <<>>]
       ELSE [raised |-> TRUE, exc |-> "KeyError", rows |-> <<>>]

\* ------------------------------------------------------------ the inputs

\* the identifier of sequence number n
Id(n) == get_imdb_string(IntV(n)).s

\* The (start, end) pairs main is called with: ints, numeric strings, blank and
\* non-numeric strings, a range that is empty, one that crosses from seven to
\* eight digits, ranges with end - start of 999, 1000 and 1001, and ranges that
\* begin below zero.
ArgPool ==
    { <<IntV(0), IntV(2)>>,
      <<StrV(<<>>), IntV(2)>>,
      <<IntV(1), StrV(<<>>)>>,
      <<StrV(<<>>), StrV(<<>>)>>,
      <<StrV(<<"a", "b">>), StrV(<<"x">>)>>,
      <<StrV(<<"1">>), StrV(<<"2">>)>>,
      <<IntV(2), IntV(1)>>,
      <<IntV(1), IntV(1)>>,
      <<IntV(9999998), IntV(10000000)>>,
      <<IntV(0), IntV(1000)>>,
      <<IntV(0), IntV(1001)>>,
      <<IntV(-1), IntV(1)>>,
      <<IntV(1234567), IntV(1234567)>>,
      <<IntV(0), IntV(999)>>,
      <<StrV(<<"-", "1">>), IntV(0)>> }

NoFile == [exists |-> FALSE, rows |-> <<>>]

\* movie_list.csv as a run may find it: missing, empty, holding every film of
\* [0, 2] in each state of in_rym, holding some of them, holding a film with an
\* eight-digit identifier.
FilePool ==
    { NoFile,
      [exists |-> TRUE, rows |-> <<>>],
      [exists |-> TRUE,
       rows |-> << Row(Id(0), omdb_title(0), omdb_year(0), "movie", "NaN"),
                   Row(Id(1), omdb_title(1), omdb_year(1), "movie", "True"),
                   Row(Id(2), omdb_title(2), omdb_year(2), "series", "NaN") >>],
      [exists |-> TRUE,
       rows |-> << Row(Id(1), omdb_title(1), omdb_year(1), "movie", "False") >>],
      [exists |-> TRUE,
       rows |-> << Row(Id(12345678), omdb_title(0), omdb_year(0), "movie", "NaN") >>] }

\* what a call of OMDb may do: return the film, return nothing, fail
Outcomes == {"hit", "miss", "raise"}

Span(parent, a, texts) == [parent |-> parent, a |-> a, texts |-> texts]

\* the search results the browser may show
SoupPool ==
    { <<>>,
      << Span(1, A(omdb_title(0)), <<>>), Span(1, NoA, << <<"(", "1", "0", ")">> >>) >> }

NoPrev == [calls |-> <<>>, dataframe |-> <<>>, exc |-> "none", file0 |-> NoFile]

NoRet == [done |-> FALSE]

\* the process before main is called
Fresh ==
    /\ pc = "idle"
    /\ start = 0
    /\ end = 0
    /\ sleep_amount = 0
    /\ dataframe = <<>>
    /\ loop_index = 0
    /\ not_checked = <<>>
    /\ calls = <<>>
    /\ exc = "none"
    /\ report = <<>>
    /\ iters = 0

Init ==
    /\ file \in FilePool
    /\ file0 = file
    /\ args \in ArgPool
    /\ Fresh
    /\ rerun = FALSE
    /\ prev = NoPrev
    /\ fn_arg = <<>>
    /\ fn_ret = NoRet

\* ----------------------------------------------------------- the actions

\* main -> add_movies, up to its loop: validate_input, get_movie_list, sleep_amount
add_movies_begin ==
    /\ pc = "idle"
    /\ LET v == validate_input(args[1], args[2])
       IN /\ start' = v[1]
          /\ end' = v[2]
          /\ sleep_amount' = sleep_amount_of(v[1], v[2])
    /\ dataframe' = get_movie_list(file)
    /\ pc' = "sweep"
    /\ file0' = file
    /\ UNCHANGED <<file, args, loop_index, not_checked, calls, exc, report, iters,
                   rerun, prev, fn_arg, fn_ret>>

\* One pass of the loop of add_movies: sleep, encode start, fetch and append when
\* no identifier of the dataframe contains it, start += 1.  A fetch that raises
\* ends the run.
add_movies_loop ==
    /\ pc = "sweep"
    /\ start <= end
    /\ iters < MaxIter
    /\ LET movie_string == get_imdb_string(IntV(start)).s
       IN IF contains(dataframe, movie_string)
          THEN /\ calls' = Append(calls, Sleep(sleep_amount))
               /\ start' = start + 1
               /\ UNCHANGED <<dataframe, pc, exc>>
          ELSE \E outcome \in Outcomes :
                  /\ calls' = calls \o <<Sleep(sleep_amount), Fetch(movie_string, outcome)>>
                  /\ IF outcome = "raise"
                     THEN /\ pc' = "raised"
                          /\ exc' = "RequestException"
                          /\ UNCHANGED <<dataframe, start>>
                     ELSE /\ dataframe' = add_individual_movie(movie_string, start,
                                                               dataframe, outcome)
                          /\ start' = start + 1
                          /\ UNCHANGED <<pc, exc>>
    /\ iters' = iters + 1
    /\ UNCHANGED <<file, file0, args, end, sleep_amount, loop_index, not_checked,
                   report, rerun, prev, fn_arg, fn_ret>>

\* add_movies writing movie_list.csv before it returns
add_movies_return_saving ==
    /\ pc = "sweep"
    /\ start > end
    /\ pc' = "swept"
    /\ file' = to_csv(dataframe)
    /\ UNCHANGED <<file0, args, start, end, sleep_amount, dataframe, loop_index,
                   not_checked, calls, exc, report, iters, rerun, prev, fn_arg, fn_ret>>

\* add_movies returns its dataframe to main when start has passed end
add_movies_return ==
    /\ pc = "sweep"
    /\ start > end
    /\ pc' = "swept"
    /\ UNCHANGED <<file, file0, args, start, end, sleep_amount, dataframe, loop_index,
                   not_checked, calls, exc, report, iters, rerun, prev, fn_arg, fn_ret>>

\* search_rym up to its loop: the selection, then the browser, which may fail
search_rym_begin ==
    /\ pc = "swept"
    /\ not_checked' = select_not_checked(dataframe)
    /\ \E outcome \in {"hit", "raise"} :
          /\ calls' = Append(calls, Browser(outcome))
          /\ IF outcome = "raise"
             THEN pc' = "raised" /\ exc' = "WebDriverException" /\ loop_index' = loop_index
             ELSE pc' = "verify" /\ exc' = exc /\ loop_index' = 1
    /\ UNCHANGED <<file, file0, args, start, end, sleep_amount, dataframe, report,
                   iters, rerun, prev, fn_arg, fn_ret>>

\* One pass of search_rym's loop over enumerate(not_checked); after the last one
\* the driver quits, the dataframe is written to movie_list.csv, and main returns
\* create_non_rym_dataframe of it.
search_rym_loop ==
    /\ pc = "verify"
    /\ IF loop_index > Len(enumerate_(not_checked))
       THEN LET r == create_non_rym_dataframe(dataframe)
            IN /\ file' = to_csv(dataframe)
               /\ report' = r.rows
               /\ pc' = IF r.raised THEN "raised" ELSE "done"
               /\ exc' = IF r.raised THEN r.exc ELSE exc
               /\ UNCHANGED <<dataframe, calls, loop_index>>
       ELSE \E soup \in SoupPool :
               LET b == search_rym_body(dataframe, not_checked,
                                        enumerate_(not_checked)[loop_index], soup)
               IN /\ dataframe' = b.dataframe
                  /\ calls' = calls \o b.events
                  /\ pc' = IF b.raised THEN "raised" ELSE pc
                  /\ exc' = IF b.raised THEN b.exc ELSE exc
                  /\ loop_index' = IF b.raised THEN loop_index ELSE loop_index + 1
                  /\ UNCHANGED <<file, report>>
    /\ UNCHANGED <<file0, args, start, end, sleep_amount, not_checked, iters, rerun,
                   prev, fn_arg, fn_ret>>

\* The operator runs the program again with the same arguments after a run has
\* ended: a new process, which keeps nothing but movie_list.csv.
run_again ==
    /\ pc \in {"raised", "done"}
    /\ ~rerun
    /\ rerun' = TRUE
    /\ prev' = [calls |-> calls, dataframe |-> dataframe, exc |-> exc, file0 |-> file0]
    /\ pc' = "idle"
    /\ start' = 0
    /\ end' = 0
    /\ sleep_amount' = 0
    /\ dataframe' = <<>>
    /\ loop_index' = 0
    /\ not_checked' = <<>>
    /\ calls' = <<>>
    /\ exc' = "none"
    /\ report' = <<>>
    /\ iters' = 0
    /\ UNCHANGED <<file, file0, args, fn_arg, fn_ret>>

Next ==
    \/ add_movies_begin
    \/ add_movies_loop
    \/ add_movies_return
    \/ search_rym_begin
    \/ search_rym_loop
    \/ run_again

Spec == Init /\ [][Next]_vars

\* ---------------------------------------- the functions applied on their own

\* The pipeline's variables at rest, for the specifications below.
AtRest ==
    /\ file = NoFile
    /\ file0 = NoFile
    /\ args = <<IntV(0), IntV(0)>>
    /\ Fresh
    /\ rerun = FALSE
    /\ prev = NoPrev

pipeline_vars == <<file, file0, pc, args, start, end, sleep_amount, dataframe, loop_index,
                   not_checked, calls, exc, report, iters, rerun, prev>>

\* The numbers below CodecSmall are all encoded, besides the chosen larger ones.
CodecSmall == 30

CodecNumbers ==
    (0..CodecSmall)
    \cup {55, 555, 5555, 55555, 555555, 5555555, 55555555, 999999, 1000000, 1234567,
          9999999, 10000000, 12345678, 99999999, 100000000, 123456789}

\* get_imdb_string's arguments: every number as an int and as its decimal string,
\* and strings that are no number.
CodecInputs ==
    {[x |-> IntV(n), n |-> n] : n \in CodecNumbers}
    \cup {[x |-> StrV(NatStr(n)), n |-> n] : n \in CodecNumbers}
    \cup {[x |-> StrV(<<>>), n |-> -1], [x |-> StrV(<<"a", "b">>), n |-> -1]}

InitCodec ==
    /\ AtRest
    /\ fn_arg \in CodecInputs
    /\ fn_ret = NoRet

\* get_imdb_string(number) is called
encode ==
    /\ ~fn_ret.done
    /\ LET r == get_imdb_string(fn_arg.x)
       IN fn_ret' = [done |-> TRUE, ok |-> r.ok, s |-> r.s]
    /\ UNCHANGED <<pipeline_vars, fn_arg>>

SpecCodec == InitCodec /\ [][encode]_vars

\* The search results check_rym is given: up to MaxItems results one after the
\* other, each under a parent of its own.
MaxItems == 2

CandidateTitles ==
    { <<"a", "b", "c", "d", "e">>, <<"a", "b", "c", "x", "y">>, <<"a", "b", "c", "d">>,
      <<"t", "i", "d", "e">>, <<"d", "i", "e", "t">> }

YearTexts == { <<"(", "1", "0", ")">>, <<"1", "1">>, <<"(", "2", "1", "0", "1", ")">> }

\* One search result, as the spans it brings (their parent is set by Soup): a
\* title span followed by a year span; or a year span alone; or a year span that
\* follows a span without a link; or a title span whose title has the year in it,
\* followed by a year span.
ItemPool ==
    { << Span(0, A(t), <<>>), Span(0, NoA, <<y>>) >> : t \in CandidateTitles, y \in YearTexts }
    \cup { << Span(0, NoA, << <<"(", "1", "0", ")">> >>) >>,
           << Span(0, NoA, << <<"f", "i", "l", "m">> >>), Span(0, NoA, << <<"(", "1", "0", ")">> >>) >>,
           << Span(0, A(<<"a", "b", "c", "d", "1", "0">>), <<>>),
              Span(0, NoA, << <<"(", "1", "0", ")">> >>) >> }

WithParent(item, p) == [k \in 1..Len(item) |-> [item[k] EXCEPT !.parent = p]]

RECURSIVE Soups(_)
Soups(n) ==
    IF n = 0 THEN {<<>>}
    ELSE Soups(n - 1)
         \cup {soup \o WithParent(item, n) :
                   soup \in {s \in Soups(n - 1) : Len(s) = 0 \/ s[Len(s)].parent = n - 1},
                   item \in ItemPool}

TargetYears == { <<"1", "0">>, <<"1", "1">> }

InitMatch ==
    /\ AtRest
    /\ fn_arg \in [soup : Soups(MaxItems),
                   title : {TitlePool[k] : k \in 1..Len(TitlePool)},
                   year : TargetYears]
    /\ fn_ret = NoRet

\* check_rym(soup, title, year) is called
match ==
    /\ ~fn_ret.done
    /\ fn_ret' = [done |-> TRUE, value |-> check_rym(fn_arg.soup, fn_arg.title, fn_arg.year)]
    /\ UNCHANGED <<pipeline_vars, fn_arg>>

SpecMatch == InitMatch /\ [][match]_vars

\* The dataframes create_non_rym_dataframe is given: up to MaxRows films, each in
\* any state of in_rym.
MaxRows == 3

RECURSIVE Frames(_)
Frames(n) ==
    IF n = 0 THEN {<<>>}
    ELSE Frames(n - 1)
         \cup {Append(f, Row(Id(n - 1), omdb_title(n - 1), omdb_year(n - 1), t, v)) :
                   f \in {g \in Frames(n - 1) : Len(g) = n - 1},
                   t \in {"movie", "series"},
                   v \in {"NaN", "True", "False"}}

InitReport ==
    /\ AtRest
    /\ fn_arg \in Frames(MaxRows)
    /\ fn_ret = NoRet

\* create_non_rym_dataframe(dataframe) is called
make_report ==
    /\ ~fn_ret.done
    /\ LET r == create_non_rym_dataframe(fn_arg)
       IN fn_ret' = [done |-> TRUE, raised |-> r.raised, exc |-> r.exc, rows |-> r.rows]
    /\ UNCHANGED <<pipeline_vars, fn_arg>>

SpecReport == InitReport /\ [][make_report]_vars

\* ------------------------------------------------------------ the claims

Fetches(c) == SelectSeq(c, LAMBDA e : e.op = "get_movie")

\* the range add_movies sweeps for the arguments of this run
Start0 == validate_input(args[1], args[2])[1]

End0 == validate_input(args[1], args[2])[2]

\* the dataframe add_movies loaded in this run
Loaded == get_movie_list(file0)

\* the row OMDb's record for sequence number n becomes
Found(n) == Row(Id(n), omdb_title(n), omdb_year(n), omdb_type(n), "NaN")

RECURSIVE Pow10(_)
Pow10(k) == IF k = 0 THEN 1 ELSE 10 * Pow10(k - 1)

\* the decimal digits of n, written in w places
Places(n, w) == [k \in 1..w |-> DigitChars[((n \div Pow10(w - k)) % 10) + 1]]

NumDigits(n) == CHOOSE d \in 1..9 : n < Pow10(d) /\ (d = 1 \/ n >= Pow10(d - 1))

\* C5: for a non-negative n of at most 7 digits get_imdb_string gives 'tt' and n
\* in exactly 7 places (9 characters); for a longer n it gives 'tt' and the digits
\* of n, none cut and none added; a decimal string gives what its number gives.
C5_Encode ==
    (fn_ret.done /\ fn_arg.n >= 0) =>
        /\ fn_ret.ok
        /\ IF fn_arg.n < Pow10(7)
           THEN fn_ret.s = <<"t", "t">> \o Places(fn_arg.n, 7) /\ Len(fn_ret.s) = 9
           ELSE /\ fn_ret.s = <<"t", "t">> \o Places(fn_arg.n, NumDigits(fn_arg.n))
                /\ Len(fn_ret.s) > 9
                /\ fn_ret.s[3] # "0"

\* an eight-digit number given as a string has been encoded
C5_Witness ==
    fn_ret.done /\ fn_arg.x.t = "str" /\ fn_arg.n >= Pow10(7) /\ Len(fn_ret.s) = 10

\* a span that counts for the title and year: the year is in one of its strings,
\* the span before it under the same parent has a link, and the link's text is
\* more than 0.6 like the title
Counts(soup, i, title, year) ==
    /\ \E k \in 1..Len(strings(soup[i])) : IsSubstring(year, strings(soup[i])[k])
    /\ \E p \in 1..(i - 1) :
          /\ soup[p].parent = soup[i].parent
          /\ \A q \in (p + 1)..(i - 1) : soup[q].parent # soup[i].parent
          /\ soup[p].a.has
          /\ 5 * ratio(soup[p].a.text, title).num > 3 * ratio(soup[p].a.text, title).den

\* the only result has the year and a title whose ratio is exactly 0.6
AtThreshold ==
    /\ Len(fn_arg.soup) = 2
    /\ fn_arg.soup[1].a.has
    /\ ~fn_arg.soup[2].a.has
    /\ find_text(fn_arg.soup[2], fn_arg.year)
    /\ 5 * ratio(fn_arg.soup[1].a.text, fn_arg.title).num
           = 3 * ratio(fn_arg.soup[1].a.text, fn_arg.title).den

\* the only result has the very title and a year text without the year
WrongYear ==
    /\ Len(fn_arg.soup) = 2
    /\ fn_arg.soup[1].a.has
    /\ fn_arg.soup[1].a.text = fn_arg.title
    /\ ~find_text(fn_arg.soup[1], fn_arg.year)
    /\ ~find_text(fn_arg.soup[2], fn_arg.year)

\* C6: check_rym returns True if and only if some span counts; so a ratio of
\* exactly 0.6, a year text without the year, and an empty soup all give False.
C6_PresentIff ==
    fn_ret.done =>
        /\ fn_ret.value <=>
               \E i \in 1..Len(fn_arg.soup) : Counts(fn_arg.soup, i, fn_arg.title, fn_arg.year)
        /\ AtThreshold => ~fn_ret.value
        /\ WrongYear => ~fn_ret.value
        /\ fn_arg.soup = <<>> => ~fn_ret.value

\* check_rym has returned False for a single result at exactly 0.6
C6_Witness == fn_ret.done /\ AtThreshold /\ ~fn_ret.value

\* C7: create_non_rym_dataframe returns, in the dataframe's order, the imdb_id,
\* title and year of exactly the rows whose in_rym is False, and does not raise.
C7_ReportIsTheFalseRows ==
    fn_ret.done =>
        /\ ~fn_ret.raised
        /\ fn_ret.rows = [k \in 1..Len(SelectSeq(fn_arg, LAMBDA r : r.in_rym = "False")) |->
                             ReportRow(SelectSeq(fn_arg, LAMBDA r : r.in_rym = "False")[k])]

\* add_movies swept from 0 a dataframe that was empty when loaded
SweptFromEmpty == Loaded = <<>> /\ Start0 = 0 /\ End0 >= 0

Populated ==
    /\ End0 - Start0 + 1 <= Len(Loaded)
    /\ \A n \in Start0..End0 : \E k \in 1..Len(Loaded) : Loaded[k].imdb_id = Id(n)

\* C2: a sweep of a range whose every identifier is in the dataframe it loads
\* makes no call of get_movie.
C2_NoFetchWhenPopulated ==
    (pc # "idle" /\ Populated) => Fetches(calls) = <<>>

\* the second run has swept a range of more than one identifier, all in the file
C2_Witness ==
    /\ rerun
    /\ pc = "swept"
    /\ Populated
    /\ iters >= 2
    /\ Fetches(calls) = <<>>

NoDupIds(df) ==
    \A j, k \in 1..Len(df) :
        (j # k /\ df[j].imdb_id # NaN) => df[j].imdb_id # df[k].imdb_id

UniqueAndNoRefetchStep ==
    /\ NoDupIds(dataframe')
    /\ \A k \in (Len(calls) + 1)..Len(calls') :
          calls'[k].op = "get_movie" =>
              \A j \in 1..Len(dataframe) : dataframe[j].imdb_id # calls'[k].arg

\* C3: at every step no two rows of the dataframe have the same imdb_id (a row
\* of missing values has none), and a call of get_movie is made only for an
\* identifier that no row of the dataframe has, whatever the rows' in_rym.
C3_UniqueAndNoRefetch == [][UniqueAndNoRefetchStep]_vars

\* a sweep has skipped a film that has its verdict and fetched another
C3_Witness ==
    /\ pc = "swept"
    /\ \E k \in 1..Len(Loaded) :
          /\ Loaded[k].in_rym \in {"True", "False"}
          /\ Loaded[k].imdb_id \in {Id(n) : n \in Start0..(Start0 + 2)}
    /\ \E k \in 1..Len(Fetches(calls)) : Fetches(calls)[k].res = "hit"
    /\ Len(Fetches(calls)) < iters

Min(a, b) == IF a <= b THEN a ELSE b

Failed(e) == e \in {"RequestException", "WebDriverException"}

\* C4 as stated: in the run after a run that a failing service ended, no fetch is
\* made for an identifier the failed run had fetched.
C4_NoRepeatedFetch ==
    (rerun /\ Failed(prev.exc)) =>
        \A k \in 1..Len(Fetches(calls)) :
            \A j \in 1..Len(Fetches(prev.calls)) :
                Fetches(prev.calls)[j].res = "hit"
                    => Fetches(calls)[k].arg # Fetches(prev.calls)[j].arg

\* C4, amended: a run that is ended by a failure leaves movie_list.csv as it
\* found it, so the next run with the same range starts from that file again and
\* makes the fetches of the failed run over again, in the same order.
C4_RerunStartsOver ==
    rerun =>
        /\ file = prev.file0
        /\ \A k \in 1..Min(Len(Fetches(calls)), Len(Fetches(prev.calls))) :
              Fetches(calls)[k].arg = Fetches(prev.calls)[k].arg

\* the run after a failed fetch has fetched again a film the failed run had found
C4_Witness ==
    /\ rerun
    /\ prev.exc = "RequestException"
    /\ \E k \in 1..Len(Fetches(calls)) :
          \E j \in 1..Len(Fetches(prev.calls)) :
              /\ Fetches(prev.calls)[j].res = "hit"
              /\ Fetches(calls)[k].arg = Fetches(prev.calls)[j].arg

\* a string that int() cannot read: empty, or with a character that is no digit,
\* sign or blank
NonNumeric(x) ==
    /\ x.t = "str"
    /\ \/ x.s = <<>>
       \/ \E k \in 1..Len(x.s) : ~IsDigit(x.s[k]) /\ x.s[k] \notin {"+", "-", " "}

Blank(x) == x.t = "str" /\ x.s = <<>>

\* C9: add_movies called with a blank start or a blank end raises SystemExit and
\* sweeps nothing.
C9_BlankRaisesSystemExit ==
    (pc # "idle" /\ (Blank(args[1]) \/ Blank(args[2]))) =>
        /\ exc = "SystemExit"
        /\ pc = "raised"
        /\ calls = <<>>

VerifierFrameStep ==
    pc \in {"swept", "verify"} =>
        /\ Len(dataframe') = Len(dataframe)
        /\ \A k \in 1..Len(dataframe) :
              dataframe'[k] # dataframe[k] =>
                  /\ dataframe[k].in_rym = "NaN"
                  /\ dataframe[k].type = "movie"
                  /\ dataframe'[k].in_rym \in {"True", "False"}
                  /\ dataframe'[k] = [dataframe[k] EXCEPT !.in_rym = dataframe'[k].in_rym]

\* C10: a step of search_rym changes no row of the dataframe but in its in_rym,
\* and that only from missing to True or False in a row whose type is 'movie'; so
\* a verdict once given stays, and a row of another type stays unchecked.  It adds
\* and removes no row.
C10_VerifierFrame == [][VerifierFrameStep]_vars

\* search_rym has run on a dataframe with a film checked, a film unchecked and a
\* series, and has ended
C10_Witness ==
    /\ pc = "raised"
    /\ exc = "IndexingError"
    /\ \E k \in 1..Len(dataframe) : dataframe[k].in_rym = "True"
    /\ \E k \in 1..Len(dataframe) : dataframe[k].in_rym = "NaN" /\ dataframe[k].type = "movie"
    /\ \E k \in 1..Len(dataframe) : dataframe[k].in_rym = "NaN" /\ dataframe[k].type = "series"
    /\ not_checked # <<>>

\* the sequence numbers the sweep of this run has been through
Visited == Start0..(start - 1)

HasRow(df, imdb_id) == \E k \in 1..Len(df) : df[k].imdb_id = imdb_id

\* C11: the sweep takes an identifier as already present if and only if a row of
\* the dataframe has exactly that imdb_id: an identifier it has been through was
\* fetched unless a row loaded from the file has it, one that is only a part of a
\* longer stored identifier included.
C11_ExactDedup ==
    pc \in {"sweep", "swept"} =>
        \A n \in Visited :
            HasRow(Loaded, Id(n)) <=>
                ~\E k \in 1..Len(calls) : calls[k].op = "get_movie" /\ calls[k].arg = Id(n)

\* C12: get_imdb_string gives no two non-negative integers the same identifier:
\* what it returns for one number differs from what it returns for every other
\* number, of seven digits or fewer or of more.
C12_Injective ==
    (fn_ret.done /\ fn_arg.n >= 0) =>
        \A m \in CodecNumbers :
            m # fn_arg.n => get_imdb_string(IntV(m)).s # fn_ret.s

\* an eight-digit number has been encoded whose last seven digits are those of a
\* shorter number
C12_Witness ==
    /\ fn_ret.done
    /\ fn_ret.ok
    /\ fn_arg.n >= Pow10(7)
    /\ \E m \in CodecNumbers : m < Pow10(7) /\ m = fn_arg.n % Pow10(7)

\* C13: the pause of the sweep is 0 exactly when the inclusive range [start, end]
\* has at most 1000 identifiers, and 90 for every longer range; so a range of 1000
\* identifiers is unpaced and a range of 1001 is paced.
C13_PauseByIdentifierCount ==
    pc \in {"sweep", "swept"} =>
        sleep_amount = IF End0 - Start0 + 1 <= 1000 THEN 0 ELSE 90

\* C14: whatever start and end validate_input is given, both bounds of the sweep
\* are non-negative, and no identifier of a negative number is fetched.
C14_BoundsNonNegative ==
    pc \in {"sweep", "swept"} =>
        /\ start >= 0
        /\ end >= 0
        /\ \A k \in 1..Len(calls) :
              calls[k].op = "get_movie" =>
                  \A j \in 1..Len(calls[k].arg) : calls[k].arg[j] # "-"

Searches(c) == SelectSeq(c, LAMBDA e : e.op = "search")

\* the run went through add_movies and got its browser, and has ended
VerifierEnded == pc \in {"done", "raised"} /\ ~Failed(exc)

\* the rows search_rym selected have each True or False for in_rym
SelectedHaveVerdict ==
    \A k \in 1..Len(dataframe) :
        HasRow(not_checked, dataframe[k].imdb_id) => dataframe[k].in_rym \in {"True", "False"}

\* C15: search_rym, given its browser, returns, and by then every row that was
\* unchecked and of type 'movie' on entry has True or False for in_rym, from one
\* search made with that row's own title; the searches are in the order of the
\* rows.
C15_SelectedSearchedInOrder ==
    VerifierEnded =>
        /\ exc \in {"none", "ValueError"}
        /\ Len(Searches(calls)) = Len(not_checked)
        /\ \A k \in 1..Len(Searches(calls)) : Searches(calls)[k].arg = not_checked[k].title
        /\ SelectedHaveVerdict

\* C16: movie_list.csv is written once in a run of main, by search_rym after its
\* loop: up to then the file is as it was when the run began (add_movies does not
\* write it), and when search_rym has ended the file holds the dataframe with the
\* verdicts of the selected rows.
C16_FlushedOnceByVerifier ==
    /\ pc \in {"sweep", "swept", "verify"} => file = file0
    /\ VerifierEnded => (file = to_csv(dataframe) /\ SelectedHaveVerdict)

\* C17: in the sweep a pause is made only before a fetch: a pass for an
\* identifier the dataframe already has makes no call of get_movie and sleeps no
\* time at all.
C17_NoPauseWithoutFetch ==
    pc \in {"sweep", "swept"} =>
        \A k \in 1..Len(calls) :
            (calls[k].op = "sleep" /\ calls[k].secs > 0) =>
                (k < Len(calls) /\ calls[k + 1].op = "get_movie")

\* the identifiers of n..e that no row loaded from the file has, in ascending order
RECURSIVE AbsentFrom(_, _)
AbsentFrom(n, e) ==
    IF n > e THEN <<>>
    ELSE (IF HasRow(Loaded, Id(n)) THEN <<>> ELSE <<Id(n)>>) \o AbsentFrom(n + 1, e)

\* C18: a sweep that has returned has fetched, once each and in ascending order,
\* exactly the identifiers of [start, end], both bounds included, that the
\* dataframe it loaded did not have; with start > end it has fetched nothing and
\* returns the dataframe as loaded.
C18_SweepFetchesEachAbsent ==
    pc = "swept" =>
        /\ [k \in 1..Len(Fetches(calls)) |-> Fetches(calls)[k].arg] = AbsentFrom(Start0, End0)
        /\ Start0 > End0 => (Fetches(calls) = <<>> /\ dataframe = Loaded)

IsPrefix(p, q) == Len(p) <= Len(q) /\ SubSeq(q, 1, Len(p)) = p

AppendOnlyStep ==
    /\ pc' \in {"sweep", "swept"} => IsPrefix(Loaded', dataframe')
    /\ pc = "sweep" =>
          /\ IsPrefix(dataframe, dataframe')
          /\ Len(dataframe') <= Len(dataframe) + 1
          /\ \A k \in (Len(calls) + 1)..Len(calls') :
                (calls'[k].op = "get_movie" /\ calls'[k].res = "hit") =>
                    /\ Len(dataframe') = Len(dataframe) + 1
                    /\ dataframe'[Len(dataframe')].imdb_id = calls'[k].arg

\* C19: at every step of add_movies the rows loaded from the file are the first
\* rows of the dataframe, unchanged and in their order; a step leaves the rows it
\* finds where they are and adds at most one, and the record of a fetch is the
\* new last row.
C19_AppendOnly == [][AppendOnlyStep]_vars

\* a sweep of a dataframe loaded with rows has added a fetched record after them
C19_Witness ==
    /\ pc = "swept"
    /\ Len(Loaded) >= 1
    /\ Len(dataframe) > Len(Loaded)
    /\ \E k \in 1..Len(Fetches(calls)) :
          /\ Fetches(calls)[k].res = "hit"
          /\ dataframe[Len(dataframe)].imdb_id = Fetches(calls)[k].arg

\* the title node of span i: the link of the nearest span before it under the
\* same parent; none when there is no such span or it has no link
TitleNode(soup, i) ==
    LET P == {p \in 1..(i - 1) :
                 /\ soup[p].parent = soup[i].parent
                 /\ \A q \in (p + 1)..(i - 1) : soup[q].parent # soup[i].parent}
    IN IF P = {} THEN NoA ELSE soup[CHOOSE p \in P : TRUE].a

\* the soup as the candidates it holds: for each span its title node and its
\* own strings
Candidates(soup) ==
    [i \in 1..Len(soup) |-> [title |-> TitleNode(soup, i), texts |-> strings(soup[i])]]

YearMatches(c, year) == \E k \in 1..Len(c.texts) : IsSubstring(year, c.texts[k])

\* the verdict of a sequence of candidates: one of them has the year and a title
\* more than 0.6 like the film's
VerdictOf(cands, title, year) ==
    \E k \in 1..Len(cands) :
        /\ YearMatches(cands[k], year)
        /\ cands[k].title.has
        /\ 5 * ratio(cands[k].title.text, title).num > 3 * ratio(cands[k].title.text, title).den

RemoveAt(seq, i) == SubSeq(seq, 1, i - 1) \o SubSeq(seq, i + 1, Len(seq))

\* C20: check_rym passes over a candidate that has the year but no title node: it
\* returns (nothing is raised), and what it returns is the verdict of the
\* candidates without that one, those after it included.
C20_SkipsCandidateWithoutTitle ==
    fn_ret.done =>
        /\ fn_ret.value \in BOOLEAN
        /\ \A i \in 1..Len(fn_arg.soup) :
              (YearMatches(Candidates(fn_arg.soup)[i], fn_arg.year)
                   /\ ~Candidates(fn_arg.soup)[i].title.has) =>
                  fn_ret.value = VerdictOf(RemoveAt(Candidates(fn_arg.soup), i),
                                           fn_arg.title, fn_arg.year)

\* check_rym has returned True for a soup whose first candidate has the year and
\* no title node, on account of a candidate after it
C20_Witness ==
    /\ fn_ret.done
    /\ fn_ret.value
    /\ Len(fn_arg.soup) >= 2
    /\ YearMatches(Candidates(fn_arg.soup)[1], fn_arg.year)
    /\ ~Candidates(fn_arg.soup)[1].title.has
    /\ ~VerdictOf(SubSeq(Candidates(fn_arg.soup), 1, 1), fn_arg.title, fn_arg.year)

====
